---- MODULE Spec2Model ----
(***************************************************************************)
(* Model of FinnClient (src/docs/finn_api.py): the fragment extractor, the *)
(* search call, the lazy multi-page traversal and the detail resolver.     *)
(*                                                                         *)
(* An HTML text is modelled as a sequence of tokens.  Every token stands   *)
(* for a piece of text that one of the regular expressions of the source   *)
(* matches as a whole (or, for "pad", that none of them touches), and it   *)
(* has the length in characters of that piece, so that the character       *)
(* positions used by match.start(), str.find() and slicing are computed    *)
(* as the source computes them.                                            *)
(***************************************************************************)
EXTENDS Integers, Sequences, FiniteSets, TLC

(***************************************************************************)
(* Bounds of the model.                                                    *)
(***************************************************************************)
MaxTokens == 4        \* tokens in an HTML text given to _extract_listings
MaxId == 2            \* listing identifiers are 1..MaxId
PadLen == 2000        \* characters of a "pad" token (text without any match)
MaxItems == 2         \* listings on one page of search results
MaxPagesArg == 2      \* largest max_pages argument of search_all_pages
MaxPage == 3          \* last page a search is issued for
MaxTotalCount == 110  \* largest total count a search page reports
MaxMatched == 2       \* detail patterns matching in one detail body
MaxImages == 1        \* image URLs in one detail body
MaxTime == 5          \* last clock reading
MaxCountLen == 4      \* pieces in a text given to _extract_total_count
MaxFilters == 2       \* filters in a filter set given to _build_search_url

(***************************************************************************)
(* Program constants.                                                      *)
(***************************************************************************)
AnchorLen == 79       \* shortest text the anchor pattern matches
MarkerLen == 20       \* len('{"type":"realestate"')
MarkerSkip == 10      \* html.find(..., start_pos + 10)
FallbackWindow == 2000
ImageLen == 50        \* shortest text the image pattern matches, with its "}"
FlagsLen == 19        \* "flags":["private"]
PerPage == 51
RateLimitDelay == 1   \* rate_limit_delay, in clock ticks
Epoch == 1            \* first clock reading (time.time() of a running system)

Texts == {"A", "B"}

None == <<>>          \* an Optional value is <<>> or <<v>>
Some(v) == <<v>>

(***************************************************************************)
(* HTML texts as token sequences.                                          *)
(*   anchor: a match of the anchor pattern for listing `id`; `val` stands  *)
(*           for the other captured groups (search key, heading, location) *)
(*   marker: the text {"type":"realestate" not followed by the rest of the *)
(*           anchor pattern (found by str.find, not by the pattern)        *)
(*   image:  a match of the nested image pattern with url `val`            *)
(*   flags:  a match of the flags pattern holding the flag `val`           *)
(*   pad:    PadLen characters in which nothing matches                    *)
(***************************************************************************)
Tok(k, i, v) == [kind |-> k, id |-> i, val |-> v]

Tokens ==
    {Tok("anchor", i, v) : i \in 1..MaxId, v \in Texts}
    \cup {Tok("image", 0, v) : v \in Texts}
    \cup {Tok("marker", 0, ""), Tok("flags", 0, "private"), Tok("pad", 0, "")}

Htmls == UNION {[1..n -> Tokens] : n \in 0..MaxTokens}

TokLen(t) ==
    CASE t.kind = "anchor" -> AnchorLen
      [] t.kind = "marker" -> MarkerLen
      [] t.kind = "image" -> ImageLen
      [] t.kind = "flags" -> FlagsLen
      [] OTHER -> PadLen

RECURSIVE StartPos(_, _)
\* the character offset at which token i of h starts (match.start())
StartPos(h, i) == IF i <= 1 THEN 0 ELSE StartPos(h, i - 1) + TokLen(h[i - 1])

EndPos(h, i) == StartPos(h, i) + TokLen(h[i])

\* html.find('{"type":"realestate"', from): the offset of the first occurrence
\* at or after `from`, -1 when there is none.  The text occurs at the start of
\* every anchor and of every marker.
Find(h, from) ==
    LET hits == {i \in 1..Len(h) : /\ h[i].kind \in {"anchor", "marker"}
                                   /\ StartPos(h, i) >= from}
    IN IF hits = {} THEN -1
       ELSE StartPos(h, CHOOSE i \in hits : \A j \in hits : i <= j)

EndMarkerFallbackOnly(h, start_pos) == start_pos + FallbackWindow

\* lines 314-316: where the chunk of the listing starting at start_pos ends
EndMarker(h, start_pos) ==
    LET end_marker == Find(h, start_pos + MarkerSkip)
    IN IF end_marker = -1 THEN start_pos + FallbackWindow ELSE end_marker

\* line 318, html[start_pos:end_marker]: the tokens lying wholly inside the slice
\* (a slice that runs past the end of the text stops at the end of the text)
ListingChunk(h, start_pos, end_marker) ==
    {i \in 1..Len(h) : StartPos(h, i) >= start_pos /\ EndPos(h, i) <= end_marker}

\* re.search: the leftmost match of `kind` inside the chunk, as an Optional
SearchIn(h, chunk, kind) ==
    LET hits == {i \in chunk : h[i].kind = kind}
    IN IF hits = {} THEN None
       ELSE Some(CHOOSE i \in hits : \A j \in hits : i <= j)

\* lines 303-339: the dictionary built for the anchor match at token i
ListingAt(h, i) ==
    LET start_pos == StartPos(h, i)
        chunk == ListingChunk(h, start_pos, EndMarker(h, start_pos))
        image_match == SearchIn(h, chunk, "image")
        flags_match == SearchIn(h, chunk, "flags")
    IN [id |-> h[i].id,
        heading |-> h[i].val,
        image |-> IF image_match # None THEN Some(h[image_match[1]].val) ELSE None,
        flags |-> IF flags_match # None THEN <<h[flags_match[1]].val>> ELSE <<>>]

SeenNever(listing_id, seen_ids) == FALSE

\* line 299: listing_id in seen_ids
Seen(listing_id, seen_ids) == listing_id \in seen_ids

RECURSIVE ExtractFrom(_, _, _, _)
\* lines 297-341: the loop over re.finditer(pattern, html), from token i on
ExtractFrom(h, i, seen_ids, listings) ==
    IF i > Len(h) THEN listings
    ELSE IF h[i].kind # "anchor" \/ Seen(h[i].id, seen_ids)
         THEN ExtractFrom(h, i + 1, seen_ids, listings)
         ELSE ExtractFrom(h, i + 1, seen_ids \cup {h[i].id},
                          Append(listings, ListingAt(h, i)))

\* _extract_listings
ExtractListings(h) == ExtractFrom(h, 1, {}, <<>>)

(***************************************************************************)
(* State.                                                                  *)
(***************************************************************************)
VARIABLES
    xpc, html, listings,    \* _extract_listings run on its own: input, result
    input, output,          \* another function run on its own: input, result
    last_request_time,      \* FinnClient.last_request_time
    arrived,                \* history: time.time() at line 255 of the latest request
    reqs,                   \* history: the requests of the operation in progress
    sOut,                   \* outcome of a direct search call, None before it
    suggestions,            \* outcome of get_location_suggestions, None before it
    gpc,                    \* position of the search_all_pages generator
    search_type, max_pages, \* its arguments
    page, results, gIdx,    \* its locals: page, results, position in results.items
    gPulls,                 \* history: next() calls made by the consumer
    gYielded,               \* history: the listings handed to the consumer
    gFetched,               \* history: the items of every page fetched, in order
    dpc, listing_id, dIdx,  \* get_listing_details: position, argument, loop index
    dOut                    \* its outcome, None before it ends

xvars == <<xpc, html, listings, input, output>>
gvars == <<gpc, search_type, max_pages, page, results, gIdx, gPulls, gYielded, gFetched>>
dvars == <<dpc, listing_id, dIdx, dOut>>
vars == <<xpc, html, listings, input, output, last_request_time, arrived, reqs,
          sOut, suggestions, gpc, search_type,
          max_pages, page, results, gIdx, gPulls, gYielded, gFetched, dpc,
          listing_id, dIdx, dOut>>

(***************************************************************************)
(* The transport and the rate limiter.                                     *)
(***************************************************************************)
Max(a, b) == IF a >= b THEN a ELSE b

\* time.time() at line 255: a reading not before the previous one (which
\* last_request_time holds once a request was made); the caller may have let
\* less than, exactly, or more than rate_limit_delay pass.
ClockReadings(last) ==
    {t \in Epoch..MaxTime : t >= last /\ t <= Max(last, Epoch) + RateLimitDelay + 1}

RateLimitNoSleep(last, now) == now

\* _rate_limit: the value last_request_time gets when the clock reads `now`
\* at line 255 (the sleep lasts the remainder of the interval)
RateLimit(last, now) ==
    LET elapsed == now - last
    IN IF elapsed < RateLimitDelay THEN now + (RateLimitDelay - elapsed) ELSE now

\* The operations whose request goes through _make_request (lines 543 and
\* 679), which calls _rate_limit at line 273; get_location_suggestions calls
\* session.get itself (line 792)
LimitedAll(op) == TRUE

Limited(op) == op \in {"search", "traversal", "details"}

\* last_request_time after a request of operation `op` that starts when the
\* clock reads `now`
IssuedAt(op, last, now) == IF Limited(op) THEN RateLimit(last, now) ELSE last

\* the latest reading of line 255 after such a request
ArrivedAt(op, before, now) == IF Limited(op) THEN now ELSE before

\* What session.get + raise_for_status gives (lines 276-277): a transport
\* failure (RequestException), or the text of the response.
Failure == [ok |-> FALSE, html |-> <<>>, count |-> [sig |-> "none", n |-> 0], body |-> None]

(***************************************************************************)
(* search                                                                  *)
(***************************************************************************)
SearchTypes == {"lettings", "homes"}

\* The HTML of a page of search results with n listings, 1..n
PageHtml(n) == [i \in 1..n |-> Tok("anchor", i, "A")]

\* The count signal of a page of search results: no recognisable signal, the
\* phrase "Du finner <n>", or that phrase with its digits separated by a
\* white-space character that line 359 does not strip, which int() rejects
CountSignals(counts) ==
    {[sig |-> "none", n |-> 0], [sig |-> "garbled", n |-> 0]}
    \cup {[sig |-> "phrase", n |-> k] : k \in counts}

SearchResponses(counts) ==
    {Failure} \cup {[ok |-> TRUE, html |-> PageHtml(n), count |-> c, body |-> None] :
                        n \in 0..MaxItems, c \in CountSignals(counts)}

\* the total counts around which has_next_page of page pg changes
BoundaryCounts(pg) == {0, PerPage * pg, PerPage * pg + 1}

\* total counts that one page after another may report alike: they end a
\* traversal at page 1, 2, ..., MaxPage
SteadyCounts == {PerPage * k + 1 : k \in 0..MaxPage - 1}

\* _extract_total_count, on the count signal of the page
ExtractTotalCount(c) == IF c.sig = "phrase" THEN c.n ELSE 0

\* _parse_listing (Record Normalizer)
ParseListing(data, st) ==
    [id |-> data.id, heading |-> data.heading, search_type |-> st,
     url |-> <<st, data.id>>, image |-> data.image, flags |-> data.flags]

TotalPagesFloor(total_count, per_page) == total_count \div per_page

\* line 552
TotalPages(total_count, per_page) ==
    IF total_count > 0 THEN (total_count + per_page - 1) \div per_page ELSE 0

\* line 559
HasNextPageInclusive(pg, total_pages) == pg <= total_pages

HasNextPage(pg, total_pages) == pg < total_pages

\* lines 542-562: the SearchResults built from the text of a response
BuildResults(st, pg, h, c) ==
    LET listings_data == ExtractListings(h)
        total_count == ExtractTotalCount(c)
        per_page == PerPage
        total_pages == TotalPages(total_count, per_page)
    IN [items |-> [i \in 1..Len(listings_data) |-> ParseListing(listings_data[i], st)],
        total_count |-> total_count,
        page |-> pg,
        per_page |-> per_page,
        has_next_page |-> HasNextPage(pg, total_pages),
        search_type |-> st]

Raised(e) == [status |-> "raised", exc |-> e, value |-> None]
Returned(v) == [status |-> "returned", exc |-> "", value |-> v]

\* search, lines 536-562: what the call gives its caller for a response
SearchCall(st, pg, resp) ==
    IF ~resp.ok THEN Raised("RequestException")
    ELSE IF resp.count.sig = "garbled" THEN Raised("ValueError")
    ELSE Returned(Some(BuildResults(st, pg, resp.html, resp.count)))

\* An entry of the request history: the operation, the category and page (or
\* identifier) of the URL, whether the transport delivered a text.  For a
\* traversal also the number of next() calls made, of listings handed over and
\* of listings fetched when the request was issued, and has_next_page and
\* total_count of the page; for a detail request whether the text contains
\* the identifier and which detail patterns match in it.
Req(op, cat, arg, resp) ==
    [op |-> op, cat |-> cat, arg |-> arg, ok |-> resp.ok, pull |-> 0,
     handed |-> 0, fetched |-> 0, more |-> FALSE, total |-> 0, hit |-> FALSE,
     matched |-> {}]

Idle == gpc = "none" /\ dpc = "idle" /\ sOut = None /\ suggestions = None

\* search called by the user of the client
Search ==
    /\ Idle
    /\ \E st \in SearchTypes, pg \in 1..MaxPage,
          resp \in SearchResponses(0..MaxTotalCount),
          now \in ClockReadings(last_request_time) :
          /\ IssuedAt("search", last_request_time, now) <= MaxTime
          /\ last_request_time' = IssuedAt("search", last_request_time, now)
          /\ arrived' = ArrivedAt("search", arrived, now)
          /\ reqs' = <<Req("search", st, pg, resp)>>
          /\ sOut' = Some(SearchCall(st, pg, resp))
    /\ UNCHANGED <<xvars, suggestions, gvars, dvars>>

(***************************************************************************)
(* search_all_pages: a generator.  Its body runs only inside next().       *)
(*   "created"  the generator object exists, its body has not started      *)
(*   "search"   inside next(), at line 644                                 *)
(*   "items"    inside next(), at the head of the for loop, line 646       *)
(*   "yielded"  suspended at the yield of line 647                         *)
(*   "done"     the body has returned (StopIteration)                      *)
(*   "raised"   an exception left the body                                 *)
(***************************************************************************)
MaxPagesArgs == {None} \cup {Some(n) : n \in 0..MaxPagesArg}

TruthyUnlessNone(mp) == mp # None

\* the truth value Python gives max_pages
Truthy(mp) == mp # None /\ mp[1] # 0

LimitReachedLate(mp, pg) == Truthy(mp) /\ pg > mp[1]

\* line 652: max_pages and page >= max_pages
LimitReached(mp, pg) == Truthy(mp) /\ pg >= mp[1]

RunsOn == "items"

\* line 647, yield: the generator is suspended until the next call of next()
Suspended == "yielded"

\* the call search_all_pages(search_type, max_pages): nothing runs yet
SearchAllPages ==
    /\ Idle
    /\ \E st \in SearchTypes, mp \in MaxPagesArgs :
          /\ search_type' = st
          /\ max_pages' = mp
    /\ gpc' = "created"
    /\ page' = 1
    /\ results' = None
    /\ gIdx' = 0
    /\ gPulls' = 0
    /\ gYielded' = <<>>
    /\ gFetched' = <<>>
    /\ reqs' = <<>>
    /\ UNCHANGED <<xvars, last_request_time, arrived, sOut, suggestions, dvars>>

\* the consumer calls next()
Pull ==
    /\ gpc \in {"created", "yielded"}
    /\ gpc' = IF gpc = "created" THEN "search" ELSE "items"
    /\ gPulls' = gPulls + 1
    /\ UNCHANGED <<xvars, last_request_time, arrived, reqs, sOut, suggestions, search_type, max_pages,
                   page, results, gIdx, gYielded, gFetched, dvars>>

\* line 644: results = self.search(search_type, page=page, **filters), the
\* page reporting one of `counts`
GenSearchOn(counts) ==
    /\ gpc = "search"
    /\ page <= MaxPage
    /\ \E resp \in SearchResponses(counts),
          now \in ClockReadings(last_request_time) :
          LET out == SearchCall(search_type, page, resp)
          IN /\ IssuedAt("traversal", last_request_time, now) <= MaxTime
             /\ last_request_time' = IssuedAt("traversal", last_request_time, now)
             /\ arrived' = ArrivedAt("traversal", arrived, now)
             /\ reqs' = Append(reqs,
                    [Req("traversal", search_type, page, resp) EXCEPT
                        !.pull = gPulls,
                        !.handed = Len(gYielded),
                        !.fetched = Len(gFetched),
                        !.more = out.status = "returned"
                                 /\ out.value[1].has_next_page,
                        !.total = IF out.status = "returned"
                                  THEN out.value[1].total_count ELSE 0])
             /\ IF out.status = "raised"
                THEN /\ gpc' = "raised"
                     /\ UNCHANGED <<results, gFetched>>
                ELSE /\ gpc' = "items"
                     /\ results' = out.value
                     /\ gFetched' = gFetched \o out.value[1].items
    /\ gIdx' = 0
    /\ UNCHANGED <<xvars, sOut, suggestions, search_type, max_pages, page, gPulls, gYielded, dvars>>

GenSearch == GenSearchOn(BoundaryCounts(page))

\* lines 646-647: the next listing of results.items is handed to the consumer
GenYield ==
    /\ gpc = "items"
    /\ gIdx < Len(results[1].items)
    /\ gIdx' = gIdx + 1
    /\ gYielded' = Append(gYielded, results[1].items[gIdx + 1])
    /\ gpc' = Suspended
    /\ UNCHANGED <<xvars, last_request_time, arrived, reqs, sOut, suggestions, search_type, max_pages,
                   page, results, gPulls, gFetched, dvars>>

\* lines 649-655: after the last item of a page
GenAfterPage ==
    /\ gpc = "items"
    /\ gIdx = Len(results[1].items)
    /\ IF ~results[1].has_next_page \/ LimitReached(max_pages, page)
       THEN gpc' = "done" /\ page' = page
       ELSE gpc' = "search" /\ page' = page + 1
    /\ UNCHANGED <<xvars, last_request_time, arrived, reqs, sOut, suggestions, search_type, max_pages,
                   results, gIdx, gPulls, gYielded, gFetched, dvars>>

(***************************************************************************)
(* get_listing_details                                                     *)
(***************************************************************************)
CandidatesWithoutLeisure == <<"lettings", "homes">>

\* line 674: the categories probed, in this order
Candidates == <<"lettings", "homes", "leisure">>

\* the fields _parse_listing_details extracts with one pattern each
DetailPatterns ==
    {"heading", "address", "postal_code", "city", "latitude", "longitude",
     "price_total", "description"}

\* the patterns whose match is converted with float(): [0-9.]+ also matches
\* texts such as "1.2.3" or ".", which float() rejects
FloatPatterns == {"latitude", "longitude"}

Matched(fields) == {p \in DetailPatterns : fields[p] # "nomatch"}

\* the text of a detail page: whether it contains the identifier, what each
\* detail pattern finds in it ("nomatch", a "match", or for a float pattern a
\* match that is "notfloat"), and how many image URLs of the CDN it holds
Bodies ==
    {[has_id |-> c, fields |-> f, images |-> n] :
        c \in BOOLEAN,
        f \in {g \in [DetailPatterns -> {"nomatch", "match", "notfloat"}] :
                  /\ \A p \in DetailPatterns \ FloatPatterns : g[p] # "notfloat"
                  /\ Cardinality(Matched(g)) <= MaxMatched},
        n \in 0..MaxImages}

DetailResponses ==
    {Failure} \cup {[ok |-> TRUE, html |-> <<>>, count |-> [sig |-> "none", n |-> 0],
                     body |-> Some(b)] : b \in Bodies}

\* line 772, ListingDetails(**details): the dataclass requires id, heading,
\* location, search_type and url; every other field has a default
RequiredFields == {"id", "heading", "location", "search_type", "url"}

\* lines 710-770: the keys of the dictionary `details`
DetailKeys(b) == {"id", "search_type", "images", "location", "url"} \cup Matched(b.fields)

\* _parse_listing_details, lines 710-772: float() of line 738 or 740 raises
\* ValueError, the constructor of line 772 raises TypeError when a required
\* field has no key; `present` are the optional fields that are not None
ParseListingDetails(b, lid, st) ==
    IF \E p \in FloatPatterns : b.fields[p] = "notfloat" THEN Raised("ValueError")
    ELSE IF ~(RequiredFields \subseteq DetailKeys(b)) THEN Raised("TypeError")
    ELSE Returned(Some([id |-> lid, search_type |-> st,
                        present |-> Matched(b.fields), images |-> b.images]))

ProbeSurfacesFailure(resp, lid, st) ==
    IF ~resp.ok THEN Raised("RequestException")
    ELSE IF ~resp.body[1].has_id THEN None
    ELSE ParseListingDetails(resp.body[1], lid, st)

\* lines 677-688, one iteration of the loop: None when the loop goes on to the
\* next candidate (the identifier is not in the text, or the request failed
\* and the except clause logged it), else the outcome of the call
Probe(resp, lid, st) ==
    IF ~resp.ok THEN None
    ELSE IF ~resp.body[1].has_id THEN None
    ELSE ParseListingDetails(resp.body[1], lid, st)

\* the call get_listing_details(listing_id)
GetListingDetails ==
    /\ Idle
    /\ \E lid \in 1..MaxId : listing_id' = lid
    /\ dpc' = "probing"
    /\ dIdx' = 1
    /\ dOut' = None
    /\ reqs' = <<>>
    /\ UNCHANGED <<xvars, last_request_time, arrived, sOut, suggestions, gvars>>

\* lines 674-688: the iteration of the loop for candidate dIdx
DetailsProbe ==
    /\ dpc = "probing"
    /\ dIdx <= Len(Candidates)
    /\ \E resp \in DetailResponses, now \in ClockReadings(last_request_time) :
          LET st == Candidates[dIdx]
              out == Probe(resp, listing_id, st)
          IN /\ IssuedAt("details", last_request_time, now) <= MaxTime
             /\ last_request_time' = IssuedAt("details", last_request_time, now)
             /\ arrived' = ArrivedAt("details", arrived, now)
             /\ reqs' = Append(reqs,
                    [Req("details", st, listing_id, resp) EXCEPT
                        !.hit = resp.ok /\ resp.body[1].has_id,
                        !.matched = IF resp.ok /\ resp.body[1].has_id
                                    THEN Matched(resp.body[1].fields) ELSE {}])
             /\ IF out = None
                THEN /\ dIdx' = dIdx + 1
                     /\ UNCHANGED <<dpc, dOut>>
                ELSE /\ dpc' = "ended"
                     /\ dOut' = Some(out)
                     /\ dIdx' = dIdx
    /\ UNCHANGED <<xvars, sOut, suggestions, gvars, listing_id>>

\* lines 690-691: every candidate was tried
DetailsNotFound ==
    /\ dpc = "probing"
    /\ dIdx > Len(Candidates)
    /\ dpc' = "ended"
    /\ dOut' = Some(Returned(None))
    /\ UNCHANGED <<xvars, last_request_time, arrived, reqs, sOut, suggestions, gvars, listing_id, dIdx>>

(***************************************************************************)
(* get_location_suggestions                                                *)
(***************************************************************************)
\* the JSON documents the suggestion endpoint may answer with
SuggestionLists == {<<>>, <<"Oslo">>, <<"Oslo", "Bergen">>}

\* What session.get + raise_for_status + response.json() have to work with:
\* a transport failure, a text that is not JSON, or a JSON document
SuggestResponses ==
    {Failure}
    \cup {[ok |-> TRUE, html |-> <<>>, count |-> [sig |-> "none", n |-> 0],
           body |-> Some([json |-> FALSE, doc |-> <<>>])]}
    \cup {[ok |-> TRUE, html |-> <<>>, count |-> [sig |-> "none", n |-> 0],
           body |-> Some([json |-> TRUE, doc |-> d])] : d \in SuggestionLists}

\* lines 791-802: the value returned for a response
Suggest(resp) ==
    IF resp.ok /\ resp.body[1].json THEN resp.body[1].doc ELSE <<>>

\* get_location_suggestions called by the user of the client (the answer
\* does not depend on the query in any way the client can see)
GetLocationSuggestions ==
    /\ Idle
    /\ \E resp \in SuggestResponses, now \in ClockReadings(last_request_time) :
          /\ IssuedAt("suggest", last_request_time, now) <= MaxTime
          /\ last_request_time' = IssuedAt("suggest", last_request_time, now)
          /\ arrived' = ArrivedAt("suggest", arrived, now)
          /\ reqs' = <<Req("suggest", "lettings", 0, resp)>>
          /\ suggestions' = Some(Suggest(resp))
    /\ UNCHANGED <<xvars, sOut, gvars, dvars>>

(***************************************************************************)
(* The user of the client runs one operation at a time and then drops its  *)
(* result (or the generator, which may not be exhausted).                  *)
(***************************************************************************)
Drop ==
    /\ \/ sOut # None
       \/ suggestions # None
       \/ gpc \in {"created", "yielded", "done", "raised"}
       \/ dpc = "ended"
    /\ sOut' = None
    /\ suggestions' = None
    /\ gpc' = "none"
    /\ search_type' = "lettings"
    /\ max_pages' = None
    /\ page' = 1
    /\ results' = None
    /\ gIdx' = 0
    /\ gPulls' = 0
    /\ gYielded' = <<>>
    /\ gFetched' = <<>>
    /\ dpc' = "idle"
    /\ listing_id' = 1
    /\ dIdx' = 1
    /\ dOut' = None
    /\ reqs' = <<>>
    /\ UNCHANGED <<xvars, last_request_time, arrived>>

ClientInit ==
    /\ last_request_time = 0
    /\ arrived = 0
    /\ reqs = <<>>
    /\ sOut = None
    /\ suggestions = None
    /\ gpc = "none"
    /\ search_type = "lettings"
    /\ max_pages = None
    /\ page = 1
    /\ results = None
    /\ gIdx = 0
    /\ gPulls = 0
    /\ gYielded = <<>>
    /\ gFetched = <<>>
    /\ dpc = "idle"
    /\ listing_id = 1
    /\ dIdx = 1
    /\ dOut = None

Init ==
    /\ ClientInit
    /\ xpc = "off"
    /\ html = <<>>
    /\ listings = <<>>
    /\ input = None
    /\ output = None

Next ==
    \/ Search
    \/ SearchAllPages
    \/ Pull
    \/ GenSearch
    \/ GenYield
    \/ GenAfterPage
    \/ GetListingDetails
    \/ DetailsProbe
    \/ DetailsNotFound
    \/ GetLocationSuggestions
    \/ Drop

Spec == Init /\ [][Next]_vars

(***************************************************************************)
(* _extract_listings on its own, over every HTML text of the bounds.       *)
(***************************************************************************)
ExtractInit ==
    /\ ClientInit
    /\ xpc = "input"
    /\ html \in Htmls
    /\ listings = <<>>
    /\ input = None
    /\ output = None

Extract ==
    /\ xpc = "input"
    /\ listings' = ExtractListings(html)
    /\ xpc' = "done"
    /\ UNCHANGED <<html, input, output, last_request_time, arrived, reqs, sOut, suggestions, gvars, dvars>>

ExtractNext == Extract

SpecExtract == ExtractInit /\ [][ExtractNext]_vars

(***************************************************************************)
(* One traversal without a page limit, by a fresh client, whose pages may  *)
(* also report the same total count one after another.                     *)
(***************************************************************************)
TraversalInit ==
    /\ xpc = "off"
    /\ html = <<>>
    /\ listings = <<>>
    /\ input = None
    /\ output = None
    /\ last_request_time = 0
    /\ arrived = 0
    /\ reqs = <<>>
    /\ sOut = None
    /\ suggestions = None
    /\ gpc = "created"
    /\ search_type = "lettings"
    /\ max_pages = None
    /\ page = 1
    /\ results = None
    /\ gIdx = 0
    /\ gPulls = 0
    /\ gYielded = <<>>
    /\ gFetched = <<>>
    /\ dpc = "idle"
    /\ listing_id = 1
    /\ dIdx = 1
    /\ dOut = None

GenSearchSteady == GenSearchOn({PerPage * page} \cup SteadyCounts)

TraversalNext ==
    \/ Pull
    \/ GenSearchSteady
    \/ GenYield
    \/ GenAfterPage

SpecTraversal == TraversalInit /\ [][TraversalNext]_vars

(***************************************************************************)
(* _extract_total_count on its own, over the texts of a page.  A text is a *)
(* sequence of pieces: the words "Du finner " (with their space), a digit, *)
(* an ordinary space, a non-breaking space, another white-space character  *)
(* (a line break), a result word ("treff"), or anything else.              *)
(***************************************************************************)
DigitChars == {"1", "2"}
StrippedChars == {" ", "nbsp"}
WhiteChars == StrippedChars \cup {"nl"}
CountChars == {"Du finner ", "treff", "x"} \cup DigitChars \cup WhiteChars

CountHtmls == UNION {[1..n -> CountChars] : n \in 0..MaxCountLen}

DigitVal(c) == IF c = "1" THEN 1 ELSE 2

\* the end of the longest run of pieces of `set` that starts at position i
RECURSIVE RunEnd(_, _, _)
RunEnd(h, i, set) ==
    IF i <= Len(h) /\ h[i] \in set THEN RunEnd(h, i + 1, set) ELSE i - 1

\* line 357: the places where 'Du finner (\d+[\s\d]*)' matches
PhraseAt(h) ==
    {i \in 1..Len(h) - 1 : h[i] = "Du finner " /\ h[i + 1] \in DigitChars}

\* line 363: the places where '(\d+)\s*(?:treff|boliger|leieobjekter)' matches
UnitAt(h) ==
    {i \in 1..Len(h) :
        /\ h[i] \in DigitChars
        /\ LET d == RunEnd(h, i, DigitChars)
               w == RunEnd(h, d + 1, WhiteChars)
           IN w + 1 <= Len(h) /\ h[w + 1] = "treff"}

\* re.search reports the leftmost match
Least(S) == CHOOSE i \in S : \A j \in S : i <= j

RECURSIVE Decimal(_, _)
Decimal(str, acc) ==
    IF str = <<>> THEN acc ELSE Decimal(Tail(str), 10 * acc + DigitVal(Head(str)))

\* int(): white space around the digits is ignored, anything else between
\* them is a ValueError
IntOf(str) ==
    LET first == RunEnd(str, 1, WhiteChars) + 1
        last == RunEnd(str, first, DigitChars)
        rest == RunEnd(str, last + 1, WhiteChars)
    IN IF last >= first /\ rest = Len(str)
       THEN Returned(Decimal(SubSeq(str, first, last), 0))
       ELSE Raised("ValueError")

\* line 359: .replace(" ", "").replace("\xa0", "")
Replaced(str) == SelectSeq(str, LAMBDA c : c \notin StrippedChars)

\* _extract_total_count
ExtractTotalCountText(h) ==
    IF PhraseAt(h) # {}
    THEN LET i == Least(PhraseAt(h))
             group == SubSeq(h, i + 1, RunEnd(h, i + 1, DigitChars \cup WhiteChars))
         IN IntOf(Replaced(group))
    ELSE IF UnitAt(h) # {}
    THEN LET i == Least(UnitAt(h))
         IN IntOf(SubSeq(h, i, RunEnd(h, i, DigitChars)))
    ELSE Returned(0)

CountInit ==
    /\ ClientInit
    /\ xpc = "count"
    /\ html = <<>>
    /\ listings = <<>>
    /\ input \in CountHtmls
    /\ output = None

Count ==
    /\ xpc = "count"
    /\ output' = Some(ExtractTotalCountText(input))
    /\ xpc' = "counted"
    /\ UNCHANGED <<html, listings, input, last_request_time, arrived, reqs, sOut, suggestions, gvars, dvars>>

CountNext == Count

SpecCount == CountInit /\ [][CountNext]_vars

(***************************************************************************)
(* _build_search_url on its own.  A filter set is a sequence of key/value  *)
(* pairs with distinct keys (the keyword arguments, in the caller's        *)
(* order).  A value is an integer, a string (a sequence of characters) or  *)
(* a list of strings; a URL is the sequence of the pieces of its text.     *)
(***************************************************************************)
IntValue(n) == [type |-> "int", text |-> <<ToString(n)>>]
StrValue(chars) == [type |-> "str", text |-> chars]
ListValue(items) == [type |-> "list", text |-> items]
NoValue == [type |-> "none", text |-> <<>>]

\* the truth value Python gives a filter value
Falsy(v) ==
    \/ v.type = "none"
    \/ v.type = "int" /\ v.text = <<"0">>
    \/ v.type \in {"str", "list"} /\ v.text = <<>>

\* the keys _build_search_url looks for, in the order of lines 435-486
ParamOrder ==
    <<"location", "price_from", "price_to", "area_from", "area_to",
      "no_of_bedrooms_from", "no_of_bedrooms_to", "property_type", "sort",
      "published", "rent_from", "rent_to", "q">>

FilterKeys == {ParamOrder[i] : i \in DOMAIN ParamOrder}

\* keyword texts: empty, URL-safe, and with characters that are not
QTexts ==
    {<<>>, <<"a">>, <<"a", " ", "b">>, <<"a", "&", "b", "=", "c">>,
     <<"a", "#", "b">>, <<"ø">>}

ValuesOf(key) ==
    CASE key = "location" ->
            {StrValue(<<>>), StrValue(<<"0.20061">>), ListValue(<<>>),
             ListValue(<<"0.20061", "0.20012">>), IntValue(20061)}
      [] key = "property_type" ->
            {StrValue(<<"3">>), ListValue(<<"3", "4">>), IntValue(0)}
      [] key = "sort" -> {StrValue(<<>>), StrValue(<<"PRICE_ASC">>)}
      [] key = "published" -> {IntValue(0), IntValue(1)}
      [] key = "q" -> {StrValue(t) : t \in QTexts}
      [] OTHER -> {IntValue(0), IntValue(5000)}

FilterPairs == UNION {{[key |-> k, value |-> v] : v \in ValuesOf(k)} : k \in FilterKeys}

FilterSets ==
    {f \in UNION {[1..n -> FilterPairs] : n \in 0..MaxFilters} :
        \A i, j \in DOMAIN f : i # j => f[i].key # f[j].key}

\* filters.get(key)
Get(filters, key) ==
    IF \E i \in DOMAIN filters : filters[i].key = key
    THEN filters[CHOOSE i \in DOMAIN filters : filters[i].key = key].value
    ELSE NoValue

EmittedAnyCategory(st, filters, key) ==
    /\ ~Falsy(Get(filters, key))
    /\ key = "location" => Get(filters, key).type \in {"str", "list"}

\* lines 435-486: whether the filter `key` gets an entry in params
Emitted(st, filters, key) ==
    /\ ~Falsy(Get(filters, key))
    /\ key = "location" => Get(filters, key).type \in {"str", "list"}
    /\ key \in {"rent_from", "rent_to"} => st = "lettings"

ParamsInFilterOrder(st, pg, filters) ==
    LET given == SelectSeq(filters, LAMBDA f : Emitted(st, filters, f.key))
    IN (IF pg > 1 THEN <<[key |-> "page", value |-> IntValue(pg)]>> ELSE <<>>)
       \o given

\* lines 429-486: the dict params, in the order of its insertions
Params(st, pg, filters) ==
    LET chosen == SelectSeq(ParamOrder, LAMBDA k : Emitted(st, filters, k))
    IN (IF pg > 1 THEN <<[key |-> "page", value |-> IntValue(pg)]>> ELSE <<>>)
       \o [i \in 1..Len(chosen) |-> [key |-> chosen[i], value |-> Get(filters, chosen[i])]]

\* lines 492-497: param_list, an f"{key}={value}" text for every value
RECURSIVE ParamList(_)
ParamList(params) ==
    IF params = <<>> THEN <<>>
    ELSE LET p == Head(params)
         IN (IF p.value.type = "list"
             THEN [i \in 1..Len(p.value.text) |-> <<p.key, "=", p.value.text[i]>>]
             ELSE << <<p.key, "=">> \o p.value.text >>)
            \o ParamList(Tail(params))

\* "&".join(param_list)
RECURSIVE Join(_)
Join(list) ==
    IF list = <<>> THEN <<>>
    ELSE IF Len(list) = 1 THEN list[1]
    ELSE list[1] \o <<"&">> \o Join(Tail(list))

\* BASE_URL and SEARCH_ENDPOINTS[search_type], lines 428 and 488
BasePath(st) == <<"https://www.finn.no/realestate/", st, "/search.html">>

\* _build_search_url
BuildSearchUrl(st, pg, filters) ==
    LET params == Params(st, pg, filters)
    IN BasePath(st) \o (IF params # <<>> THEN <<"?">> \o Join(ParamList(params)) ELSE <<>>)

\* page 1 is implicit in the URL, later pages are not
UrlPages == {1, 2}

UrlInit ==
    /\ ClientInit
    /\ xpc = "build"
    /\ html = <<>>
    /\ listings = <<>>
    /\ input \in [search_type : SearchTypes, page : UrlPages, filters : FilterSets]
    /\ output = None

BuildUrl ==
    /\ xpc = "build"
    /\ output' = Some(BuildSearchUrl(input.search_type, input.page, input.filters))
    /\ xpc' = "built"
    /\ UNCHANGED <<html, listings, input, last_request_time, arrived, reqs, sOut,
                   suggestions, gvars, dvars>>

UrlNext == BuildUrl

SpecUrl == UrlInit /\ [][UrlNext]_vars

(***************************************************************************)
(* Properties of search_all_pages and search.                              *)
(***************************************************************************)
IsPrefix(a, b) == Len(a) <= Len(b) /\ SubSeq(b, 1, Len(a)) = a

\* the search calls the generator has issued so far
Calls == SelectSeq(reqs, LAMBDA r : r.op = "traversal")

InTraversal == gpc # "none"

\* C1: for every max_pages >= 1 a traversal issues at most max_pages search
\* calls, whatever the pages report (at most 2 calls for max_pages = 2).
C1_AtMostMaxPagesCalls ==
    (InTraversal /\ max_pages # None /\ max_pages[1] >= 1)
        => Len(Calls) <= max_pages[1]

\* a traversal with max_pages = 2 that ended after its second call although
\* the second page reported has_next_page
C1_Witness ==
    /\ gpc = "done"
    /\ max_pages = Some(2)
    /\ Len(Calls) = 2
    /\ Calls[2].more

\* C2: the search calls are for the pages 1, 2, 3, ... in order, the listings
\* are handed over in page order and in-page order, and no search call follows
\* a page whose has_next_page is false or whose number has reached max_pages.
C2_OrderedUntilFirstStop ==
    InTraversal =>
        /\ \A k \in 1..Len(Calls) : Calls[k].arg = k
        /\ IsPrefix([i \in 1..Len(gYielded) |-> gYielded[i].id],
                    [i \in 1..Len(gFetched) |-> gFetched[i].id])
        /\ gpc = "done" => gYielded = gFetched
        /\ \A k \in 1..(Len(Calls) - 1) :
              /\ Calls[k].more
              /\ ~(max_pages # None /\ k >= max_pages[1])

\* C3: the generator never prefetches.  Nothing is fetched before the first
\* next(); every search call is issued inside the next() call that follows the
\* hand-over of the last listing fetched before it, so a consumer that makes
\* no further next() call causes no further fetch.
C3_NoPrefetch ==
    InTraversal =>
        /\ gpc = "created" => Calls = <<>>
        /\ \A k \in 1..Len(Calls) :
              /\ Calls[k].pull >= 1
              /\ Calls[k].handed = Calls[k].fetched
              /\ Calls[k].pull = Calls[k].handed + 1
        /\ gPulls <= Len(gYielded) + 1
        /\ gpc \in {"created", "yielded"} => gPulls = Len(gYielded)

\* the second page was fetched in the third next() call, after both listings
\* of the first page had been handed over
C3_Witness ==
    /\ gpc = "yielded"
    /\ Len(Calls) = 2
    /\ Calls[2].handed = 2
    /\ Calls[2].pull = 3
    /\ Len(gYielded) = 3

\* the least n with n * per_page >= total_count
Ceil(total_count, per_page) ==
    CHOOSE n \in 0..total_count :
        n * per_page >= total_count /\ (n = 0 \/ (n - 1) * per_page < total_count)

PaginationOk(r) ==
    /\ r.page >= 1 /\ r.total_count >= 0
    /\ r.per_page = 51
    /\ r.has_next_page <=> r.page < Ceil(r.total_count, r.per_page)
    /\ r.total_count = 0 => ~r.has_next_page

\* C4: every SearchResults that search returns has per_page = 51 and
\* has_next_page true exactly when page < ceil(total_count / per_page) (never
\* when total_count = 0).
C4_HasNextPage ==
    /\ (sOut # None /\ sOut[1].status = "returned") => PaginationOk(sOut[1].value[1])
    /\ results # None => PaginationOk(results[1])

\* page 2 of 103 results has a next page
C4_Witness ==
    /\ sOut # None
    /\ sOut[1].status = "returned"
    /\ sOut[1].value[1].page = 2
    /\ sOut[1].value[1].total_count = 103
    /\ sOut[1].value[1].has_next_page

(***************************************************************************)
(* Properties of get_listing_details.                                      *)
(***************************************************************************)
\* the detail requests of the call in progress
Probes == SelectSeq(reqs, LAMBDA r : r.op = "details")

InDetails == dpc # "idle"

Hits == {k \in 1..Len(Probes) : Probes[k].hit}

\* C5: the candidates are probed in the order lettings, homes, leisure; a
\* text without the identifier makes the call go on to the next candidate
\* without raising; on the first text with the identifier the call returns
\* the ListingDetails of that category and fetches no later candidate.
C5_FirstHitReturnsDetails ==
    InDetails =>
        /\ \A k \in 1..Len(Probes) :
              /\ Probes[k].cat = <<"lettings", "homes", "leisure">>[k]
              /\ (Probes[k].ok /\ ~Probes[k].hit)
                    => (dpc = "probing" \/ k < Len(Probes) \/ dOut[1].status = "returned")
        /\ \A k \in Hits :
              /\ k = Len(Probes)
              /\ dpc = "ended"
              /\ dOut[1].status = "returned"
              /\ dOut[1].value # None
              /\ dOut[1].value[1].search_type = Probes[k].cat

\* C6: when every candidate was fetched and no text contained the identifier,
\* the call returns None (no error), after exactly one fetch per candidate.
C6_NotFoundAfterThreeFetches ==
    (dpc = "ended" /\ Hits = {}) =>
        /\ dOut = Some(Returned(None))
        /\ Len(Probes) = 3
        /\ \A k \in 1..3 : Probes[k].cat = <<"lettings", "homes", "leisure">>[k]

\* three texts were delivered, none contained the identifier
C6_Witness ==
    /\ dpc = "ended"
    /\ Len(Probes) = 3
    /\ \A k \in 1..3 : Probes[k].ok /\ ~Probes[k].hit
    /\ dOut = Some(Returned(None))

SearchSurfaces ==
    /\ (sOut # None /\ ~reqs[1].ok) => sOut[1] = Raised("RequestException")
    /\ InTraversal =>
          \A k \in 1..Len(Calls) :
              ~Calls[k].ok => (k = Len(Calls) /\ gpc = "raised")

\* C7: a transport failure of a fetch is surfaced to the caller of the
\* operation that issued it and is not recovered locally, in search, in a
\* traversal step of search_all_pages and in get_listing_details.
C7_TransportFailureSurfaces ==
    /\ SearchSurfaces
    /\ InDetails =>
          \A k \in 1..Len(Probes) :
              ~Probes[k].ok => /\ k = Len(Probes)
                               /\ dpc = "ended"
                               /\ dOut[1] = Raised("RequestException")

\* C7 as amended: search and a traversal step surface the failure;
\* get_listing_details does not: it goes on to the next candidate, never
\* raises the failure, and returns None when no candidate has the identifier.
C7_SurfacedExceptInDetails ==
    /\ SearchSurfaces
    /\ InDetails =>
          /\ \A k \in 1..Len(Probes) :
                ~Probes[k].ok => (k < Len(Probes) \/ dIdx = k + 1)
          /\ dpc = "ended" => dOut[1] # Raised("RequestException")
          /\ (dpc = "ended" /\ Hits = {}) => dOut = Some(Returned(None))

\* every detail request failed and the call returned None
C7_Witness ==
    /\ dpc = "ended"
    /\ Len(Probes) = 3
    /\ \A k \in 1..3 : ~Probes[k].ok
    /\ dOut = Some(Returned(None))

\* C8: for every text that contains the identifier the call returns a
\* ListingDetails in which exactly the fields whose pattern matched are
\* present; a pattern that does not match never makes the call raise.
C8_MissingFieldsAreAbsent ==
    InDetails =>
        \A k \in Hits :
            /\ dOut # None
            /\ dOut[1].status = "returned"
            /\ dOut[1].value # None
            /\ dOut[1].value[1].present = Probes[k].matched

(***************************************************************************)
(* Properties of _extract_listings.                                        *)
(***************************************************************************)
AnchorsOf(h) == {i \in 1..Len(h) : h[i].kind = "anchor"}

\* the first anchor of every identifier
FirstAnchors(h) ==
    {i \in AnchorsOf(h) : \A j \in AnchorsOf(h) : h[j].id = h[i].id => i <= j}

\* the n-th smallest element of a set of numbers
Nth(S, n) == CHOOSE i \in S : Cardinality({j \in S : j <= i}) = n

\* C9: for an HTML text whose anchors carry k distinct identifiers, some of
\* them repeated, the result has exactly k records, one per identifier, in the
\* order of the first anchors, and every record holds the fields of the first
\* anchor of its identifier (nothing of a repeated anchor).
C9_DedupFirstOccurrence ==
    xpc = "done" =>
        /\ Len(listings) = Cardinality({html[i].id : i \in AnchorsOf(html)})
        /\ Len(listings) = Cardinality(FirstAnchors(html))
        /\ \A n \in 1..Len(listings) :
              /\ listings[n].id = html[Nth(FirstAnchors(html), n)].id
              /\ listings[n].heading = html[Nth(FirstAnchors(html), n)].val

\* two identifiers, the first one repeated with other fields
C9_Witness ==
    /\ xpc = "done"
    /\ Len(html) = 3
    /\ html[1] = Tok("anchor", 2, "A")
    /\ html[2] = Tok("anchor", 1, "B")
    /\ html[3] = Tok("anchor", 2, "B")
    /\ Len(listings) = 2
    /\ listings[1].heading = "A"

\* the anchors after token i
LaterAnchors(h, i) == {j \in AnchorsOf(h) : j > i}

\* the tokens of `kind` that lie between anchor i and the next anchor
Between(h, i, kind) ==
    {k \in 1..Len(h) : /\ k > i
                       /\ h[k].kind = kind
                       /\ \A j \in LaterAnchors(h, i) : k < j}

\* C10: when another anchor follows the anchor of a record, the image and the
\* flags of the record come from the text between the two anchors only; the
\* window of 2000 characters is used only when no anchor follows.
C10_WindowEndsAtNextAnchor ==
    xpc = "done" =>
        \A n \in 1..Len(listings) :
            LET i == Nth(FirstAnchors(html), n)
                images == Between(html, i, "image")
                flags == Between(html, i, "flags")
            IN /\ listings[n].image # None
                     => \E k \in images : listings[n].image = Some(html[k].val)
               /\ listings[n].flags # <<>>
                     => \E k \in flags : listings[n].flags = <<html[k].val>>
               /\ (LaterAnchors(html, i) = {} /\ Find(html, StartPos(html, i) + 1) = -1)
                     => /\ listings[n].image # None
                           <=> \E k \in images :
                                  EndPos(html, k) <= StartPos(html, i) + FallbackWindow
                        /\ listings[n].flags # <<>>
                           <=> \E k \in flags :
                                  EndPos(html, k) <= StartPos(html, i) + FallbackWindow

\* the image that follows the second anchor, well inside 2000 characters of
\* the first, is in the second record and not in the first
C10_Witness ==
    /\ xpc = "done"
    /\ Len(html) = 3
    /\ html[1].kind = "anchor" /\ html[2].kind = "anchor" /\ html[3].kind = "image"
    /\ Len(listings) = 2
    /\ listings[1].image = None
    /\ listings[2].image = Some(html[3].val)

(***************************************************************************)
(* Properties of _extract_total_count.                                     *)
(***************************************************************************)
\* C11: _extract_total_count returns a non-negative integer and never raises,
\* whatever the text: 0 when the text holds no count signal, and any count it
\* cannot extract (digits after "Du finner" separated by white space other
\* than an ordinary or a non-breaking space) gives a number, not an exception.
C11_CountNeverRaises ==
    xpc = "counted" =>
        /\ output[1].status = "returned"
        /\ output[1].value \in Nat
        /\ (PhraseAt(input) = {} /\ UnitAt(input) = {} => output[1].value = 0)

(***************************************************************************)
(* Properties of the rate limiter.                                         *)
(***************************************************************************)
\* a step in which a request is issued, and the operation that issues it
Requested == Len(reqs') = Len(reqs) + 1
Requester == reqs'[Len(reqs')].op

\* C12: any two consecutive requests issued through _make_request are at
\* least rate_limit_delay apart: a request that arrives earlier than that
\* after the previous one sleeps for the remainder, so it is issued exactly
\* rate_limit_delay after it; one that arrives later is issued at once, and so
\* is the first request of a fresh client.
C12_RequestsSeparated ==
    [][Requested /\ Limited(Requester) =>
        /\ last_request_time' - last_request_time >= RateLimitDelay
        /\ arrived' >= last_request_time
        /\ IF arrived' - last_request_time < RateLimitDelay
           THEN last_request_time' = last_request_time + RateLimitDelay
           ELSE last_request_time' = arrived'
        /\ (last_request_time = 0 => last_request_time' = arrived')]_vars

\* the second request of a traversal arrived early and was held back
C12_Witness ==
    /\ Len(reqs) >= 2
    /\ Limited(reqs[2].op)
    /\ arrived < last_request_time

\* C18: last_request_time changes only in a step that issues a request of
\* search (alone or inside search_all_pages) or of get_listing_details, and in
\* such a step _rate_limit is applied exactly once; the request of
\* get_location_suggestions neither waits for the limiter nor moves
\* last_request_time.
C18_OnlyRateLimitWrites ==
    [][/\ (last_request_time' # last_request_time =>
              Requested /\ Requester \in {"search", "traversal", "details"})
       /\ (Requested /\ Requester \in {"search", "traversal", "details"} =>
              last_request_time' = RateLimit(last_request_time, arrived'))
       /\ (Requested /\ Requester = "suggest" =>
              /\ last_request_time' = last_request_time
              /\ arrived' = arrived)]_vars

\* suggestions were fetched by a client that had made a request before
C18_Witness ==
    /\ suggestions # None
    /\ Len(reqs) = 1
    /\ reqs[1].op = "suggest"
    /\ last_request_time > 0

(***************************************************************************)
(* Properties of _build_search_url.                                        *)
(***************************************************************************)
\* the pieces of a URL after its "?"
Query(url) ==
    IF \E i \in DOMAIN url : url[i] = "?"
    THEN SubSeq(url, (CHOOSE i \in DOMAIN url : url[i] = "?") + 1, Len(url))
    ELSE <<>>

\* the query split at every "&"
RECURSIVE Split(_, _)
Split(query, part) ==
    IF query = <<>> THEN (IF part = <<>> THEN <<>> ELSE <<part>>)
    ELSE IF Head(query) = "&" THEN <<part>> \o Split(Tail(query), <<>>)
    ELSE Split(Tail(query), Append(part, Head(query)))

\* the parameters a server reads in the URL, and their names
UrlParams(url) == Split(Query(url), <<>>)
UrlKeys(url) == [i \in DOMAIN UrlParams(url) |->
                    IF UrlParams(url)[i] = <<>> THEN "" ELSE UrlParams(url)[i][1]]

Built == xpc = "built"
Url == output[1]

RECURSIVE FilterNames(_)
FilterNames(keys) ==
    IF keys = <<>> THEN <<>>
    ELSE LET rest == FilterNames(Tail(keys))
         IN IF Head(keys) \in FilterKeys /\ (rest = <<>> \/ Head(rest) # Head(keys))
            THEN <<Head(keys)>> \o rest
            ELSE rest

\* the filters of the filter set that are in the URL, in the caller's order
GivenNames ==
    LET given == SelectSeq(input.filters,
                    LAMBDA f : Emitted(input.search_type, input.filters, f.key))
    IN [i \in DOMAIN given |-> given[i].key]

\* C14 as stated: the parameters of the URL are in the iteration order of the
\* caller's filter set.
C14_FilterSetOrder ==
    Built => FilterNames(UrlKeys(Url)) = GivenNames

Reordered(filters) ==
    {[i \in DOMAIN filters |-> filters[g[i]]] :
        g \in {h \in [DOMAIN filters -> DOMAIN filters] :
                  \A i, j \in DOMAIN filters : i # j => h[i] # h[j]}}

Rank(key) == CHOOSE i \in DOMAIN ParamOrder : ParamOrder[i] = key

\* C14, amended: the parameters of the URL are in the fixed order page,
\* location, price_from, price_to, area_from, area_to, no_of_bedrooms_from,
\* no_of_bedrooms_to, property_type, sort, published, rent_from, rent_to, q,
\* whatever the key order of the filter set: filter sets that hold the same
\* keys and values in different orders give the same URL.
C14_FixedOrder ==
    Built =>
        /\ \A f \in Reordered(input.filters) :
              BuildSearchUrl(input.search_type, input.page, f) = Url
        /\ LET names == FilterNames(UrlKeys(Url))
           IN /\ \A i, j \in DOMAIN names :
                    i < j /\ names[i] # "q" => Rank(names[i]) < Rank(names[j])
              /\ \A i \in DOMAIN UrlKeys(Url) : UrlKeys(Url)[i] = "page" => i = 1

\* the caller gives q before location, the URL has location before q
C14_Witness ==
    /\ Built
    /\ Len(input.filters) = 2
    /\ input.filters[1].key = "q"
    /\ input.filters[2].key = "location"
    /\ input.page = 2
    /\ Len(UrlKeys(Url)) = 3
    /\ UrlKeys(Url)[1] = "page"
    /\ UrlKeys(Url)[2] = "location"
    /\ UrlKeys(Url)[3] = "q"

UnsafeChars == {" ", "&", "=", "#", "ø"}

\* urllib.parse.quote of one character
Quote(c) ==
    CASE c = " " -> "%20"
      [] c = "&" -> "%26"
      [] c = "=" -> "%3D"
      [] c = "#" -> "%23"
      [] c = "ø" -> "%C3%B8"
      [] OTHER -> c

\* C15: the keyword text q is percent-encoded in the URL: the last parameter
\* of the URL is q with every character of the text that is not URL-safe in
\* its encoded form, none of them raw, and the URL has no parameter besides
\* those of the page and the filters.
C15_KeywordEncoded ==
    Built /\ ~Falsy(Get(input.filters, "q")) =>
        LET text == Get(input.filters, "q").text
            params == UrlParams(Url)
            last == params[Len(params)]
        IN /\ last = <<"q", "=">> \o [i \in DOMAIN text |-> Quote(text[i])]
           /\ \A i \in 3..Len(last) : last[i] \notin UnsafeChars
           /\ Len(params) =
                 Len(ParamList(Params(input.search_type, input.page, input.filters)))

PageConsumed == gpc = "items" /\ gIdx = Len(results[1].items)

\* every search call of the traversal reported the total count t
Steady(t) == \A k \in 1..Len(Calls) : Calls[k].total = t

\* C17: without a page limit a traversal ends exactly at the first page p that
\* reports total_count <= 51 * p, however many items the pages hold: every
\* page before the last call reported more than 51 * p, a traversal that has
\* ended did so after a page that did not, and once the items of a page are
\* consumed the generator ends if that page reported total_count <= 51 * p and
\* goes on to the next page otherwise (so it never ends while every page
\* reports more).  If every page reported the same total count T, the ended
\* traversal has issued max(1, ceil(T / 51)) search calls.
C17_EndsAtFirstShortCount ==
    /\ [](InTraversal /\ max_pages = None =>
            /\ \A k \in 1..(Len(Calls) - 1) : Calls[k].total > 51 * k
            /\ gpc = "done" =>
                  /\ Calls[Len(Calls)].total <= 51 * Len(Calls)
                  /\ \A t \in 0..MaxTotalCount :
                        Steady(t) => Len(Calls) = Max(1, Ceil(t, 51)))
    /\ [][PageConsumed /\ max_pages = None =>
            IF results[1].total_count <= 51 * page
            THEN gpc' = "done"
            ELSE gpc' = "search" /\ page' = page + 1]_vars

\* three pages reported 103 results each, the first of them held no listing,
\* and the traversal ended after the third
C17_Witness ==
    /\ gpc = "done"
    /\ max_pages = None
    /\ Len(Calls) = 3
    /\ Steady(103)
    /\ Calls[2].fetched = 0

====
